---------------------------- MODULE Spec2Model ----------------------------
(***************************************************************************)
(* Model of ext/semian/sliding_window.c: a circular buffer of ints kept in *)
(* a SysV shared memory segment and guarded by a SysV semaphore.           *)
(*                                                                         *)
(* One statement of the C code that touches the shared record is one step  *)
(* of the process that runs it; statements that only touch locals are      *)
(* folded into the neighbouring step.                                      *)
(***************************************************************************)
EXTENDS Integers, Sequences, FiniteSets, TLC

(* ------------------------------ bounds -------------------------------- *)

\* Scaled-down SLIDING_WINDOW_MAX_SIZE: the size of data[] and the largest
\* max_size check_max_size_arg accepts.
SLIDING_WINDOW_MAX_SIZE == 3

\* Sample values are 1..MaxVal; 0 is the content of a never-written cell.
MaxVal == 2

\* Number of processes that may hold a handle on the key.
NProcs == 2

\* Longest recorded history of pushes on a freshly initialized window.
MaxPush == 6

\* The runs of several processes use max_size up to ConcMaxSize.
ConcMaxSize == 2

\* Longest recorded history of pushes in the runs of several processes.
ConcMaxPush == 3

\* The attachments of a process are counted up to MaxAttach.
MaxAttach == 3

Procs == 1..NProcs
NoProc == 0
Vals == 1..MaxVal
Cells == 0..MaxVal

\* The sample values of the runs of several processes.  The code only moves
\* samples and hands them to the block, so two values tell them apart.
ConcVals == {1, 2}
DataIdx == 0..(SLIDING_WINDOW_MAX_SIZE - 1)

VARIABLES
  window,   \* semian_simple_sliding_window_shared_t in the shared segment
  lock,     \* the semaphore: NoProc when free, else the process that took it
  inited,   \* inited[p]: the handle of p has its key and sem_id
  pc,       \* pc[p]: the statement process p executes next
  loc,      \* loc[p]: the locals of the call p is in
  ret,      \* ret[p]: how the last call of p ended
  entry,    \* entry[p]: the record as it was when p took the lock (history)
  shm,      \* the size in bytes of the segment of the key, 0 while there is
            \* none
  attached, \* attached[p]: the shmat attachments p holds, in a run that
            \* counts them
  run,      \* the run: its processes, max_size arguments, sample values,
            \* whether it records the pushes and how many, whether calls can fail in
            \* shmget, shmat, rb_yield and RB_NUM2INT, whether the calls are
            \* issued one at a time, whether it counts the attachments
  pushed,   \* in a run that records it: the values pushed since the window
            \* was last emptied (history)
  pusher    \* in a run that records it: the process of the last push (history)

vars ==
  <<window, lock, inited, pc, loc, ret, entry, shm, attached, run, pushed,
    pusher>>

(* --------------------------- pure helpers ----------------------------- *)

Abs(a) == IF a >= 0 THEN a ELSE 0 - a

\* The % operator of C for b # 0: truncated division, so the result has the
\* sign of the dividend.
CRem(a, b) == IF a >= 0 THEN a % Abs(b) ELSE 0 - ((0 - a) % Abs(b))

Min(a, b) == IF a <= b THEN a ELSE b

\* What a read of data[idx] can yield: the cell, or anything when idx lies
\* outside the array.
ReadData(w, idx) == IF idx \in DataIdx THEN {w.data[idx]} ELSE Cells

\* The state of a segment shmget has just created: zero filled.
ZeroWindow ==
  [max_size |-> 0, length |-> 0, start |-> 0, end |-> 0,
   data |-> [k \in DataIdx |-> 0]]

NoLoc ==
  [value |-> 0, index |-> 0, start |-> 0, length |-> 0, i |-> 0,
   cleared |-> 0, pred |-> {}, retval |-> <<>>, seen |-> <<>>]

\* values(): the live samples, oldest first.
Values(w) == [k \in 1..w.length |-> w.data[(w.start + (k - 1)) % w.max_size]]

\* The last n elements of s.
LastN(s, n) == SubSeq(s, Len(s) - n + 1, Len(s))


(* ------------------- semaphore (sysv_semaphores.c) -------------------- *)

\* sem_meta_lock: blocks until the semaphore is free, then takes it.
sem_meta_lock(p) == lock = NoProc /\ lock' = p

\* sem_meta_unlock: gives the semaphore back.
sem_meta_unlock(p) == lock' = NoProc

(* ----------------------------- plumbing ------------------------------- *)

Goto(p, l) == pc' = [pc EXCEPT ![p] = l]
SetLoc(p, l) == loc' = [loc EXCEPT ![p] = l]
SetRet(p, r) == ret' = [ret EXCEPT ![p] = r]
Ghosts == <<run, pushed, pusher>>

\* In a run of calls issued one at a time, p starts a call only when no other
\* process is inside one.
Serial(p) == run.serial => \A q \in Procs \ {p} : pc[q] = "idle"

\* sizeof(int)
SizeofInt == 4

\* shmget(key, sizeof(int), IPC_CREAT | permissions): the segment of the key,
\* created with the size asked for when there is none.
ShmgetSize == SizeofInt
Shmget == shm' = IF shm = 0 THEN ShmgetSize ELSE shm

\* shmat(shmid, NULL, 0) in get_window: one more attachment of p; no method
\* calls shmdt.  A run that counts them stops at MaxAttach.
CanAttach(p) == run.attach => attached[p] < MaxAttach
Shmat(p) ==
  attached' = IF run.attach THEN [attached EXCEPT ![p] = @ + 1] ELSE attached

\* A method other than initialize_sliding_window is called on an initialized
\* handle and reaches its sem_meta_lock.  Which method it is shows only once
\* the semaphore is taken, so the choice is made there.
Call(p) ==
  /\ pc[p] = "idle" /\ inited[p] /\ p \in run.procs
  /\ Serial(p)
  /\ Goto(p, "lock") /\ SetRet(p, "none")
  /\ UNCHANGED <<window, lock, inited, loc, entry, attached, shm, Ghosts>>

\* sem_meta_lock(res->sem_id) followed by get_window(res->key), which either
\* attaches the segment or raises with the semaphore still taken.
Acquire(p, to, l) ==
  /\ pc[p] = "lock"
  /\ sem_meta_lock(p)
  /\ \/ /\ CanAttach(p) /\ Shmget /\ Shmat(p)
        /\ Goto(p, to) /\ SetLoc(p, l)
        /\ entry' = [entry EXCEPT ![p] = window]
        /\ UNCHANGED ret
     \/ /\ run.errors
        /\ Goto(p, "idle") /\ SetRet(p, "shm_error")
        /\ UNCHANGED <<loc, entry, attached, shm>>
  /\ UNCHANGED <<window, inited>>

\* sem_meta_unlock(res->sem_id) and the return to the caller.
Release(p, from, r) ==
  /\ pc[p] = from
  /\ sem_meta_unlock(p)
  /\ Goto(p, "idle") /\ SetLoc(p, NoLoc) /\ SetRet(p, r)
  /\ entry' = [entry EXCEPT ![p] = ZeroWindow]
  /\ UNCHANGED <<window, inited, attached, shm>>

\* A step inside a method that changes the record and the locals.
Step(p, from, to, w, l) ==
  /\ pc[p] = from
  /\ window' = w
  /\ Goto(p, to) /\ SetLoc(p, l)
  /\ UNCHANGED <<lock, inited, ret, entry, attached, shm>>

(* ------------------ initialize_sliding_window (88-104) ---------------- *)

\* check_max_size_arg accepts the converted max_size.
check_max_size_arg(m) == m > 0 /\ m <= SLIDING_WINDOW_MAX_SIZE

\* The call up to get_window(res->key), which may raise.  A run of calls
\* issued one at a time keeps the record the call found (history).
InitCall(p) ==
  /\ pc[p] = "idle" /\ p \in run.procs
  /\ Serial(p)
  /\ \E m \in run.sizes :
       \/ /\ CanAttach(p) /\ Shmget /\ Shmat(p)
          /\ Goto(p, "init_max_size") /\ SetRet(p, "none")
          /\ SetLoc(p, [NoLoc EXCEPT !.value = m])
          /\ entry' = IF run.serial THEN [entry EXCEPT ![p] = window] ELSE entry
       \/ /\ run.errors
          /\ SetRet(p, "shm_error")
          /\ shm' = shm \/ Shmget
          /\ UNCHANGED <<pc, loc, entry, attached>>
  /\ UNCHANGED <<window, lock, inited, Ghosts>>

\* An initialize that stores max_size before it looks at it.
InitMaxSizeEager(p) ==
  /\ pc[p] = "init_max_size"
  /\ window' = [window EXCEPT !.max_size = loc[p].value]
  /\ IF check_max_size_arg(loc[p].value)
       THEN Goto(p, "init_length") /\ UNCHANGED <<loc, ret>>
       ELSE Goto(p, "idle") /\ SetLoc(p, NoLoc) /\ SetRet(p, "max_size_error")
  /\ entry' = IF check_max_size_arg(loc[p].value)
                THEN entry ELSE [entry EXCEPT ![p] = ZeroWindow]
  /\ UNCHANGED <<lock, inited, attached, shm, Ghosts>>

\* window->max_size = check_max_size_arg(max_size);
InitMaxSize(p) ==
  /\ pc[p] = "init_max_size"
  /\ IF check_max_size_arg(loc[p].value)
       THEN /\ window' = [window EXCEPT !.max_size = loc[p].value]
            /\ Goto(p, "init_length")
            /\ UNCHANGED <<loc, ret, entry>>
       ELSE /\ Goto(p, "idle") /\ SetLoc(p, NoLoc) /\ SetRet(p, "max_size_error")
            /\ entry' = [entry EXCEPT ![p] = ZeroWindow]
            /\ UNCHANGED window
  /\ UNCHANGED <<lock, inited, attached, shm, Ghosts>>

\* An initialize that leaves length where it was.
InitLengthKept(p) ==
  /\ Step(p, "init_length", "init_start", window, loc[p])
  /\ UNCHANGED Ghosts

\* window->length = 0;
InitLength(p) ==
  /\ Step(p, "init_length", "init_start", [window EXCEPT !.length = 0], loc[p])
  /\ UNCHANGED Ghosts

\* window->start = 0;
InitStart(p) ==
  /\ Step(p, "init_start", "init_end", [window EXCEPT !.start = 0], loc[p])
  /\ UNCHANGED Ghosts

\* window->end = 0; res->sem_id = initialize_single_semaphore(...); return
InitEnd(p) ==
  /\ pc[p] = "init_end"
  /\ window' = [window EXCEPT !.end = 0]
  /\ inited' = [inited EXCEPT ![p] = TRUE]
  /\ Goto(p, "idle") /\ SetLoc(p, NoLoc) /\ SetRet(p, "ok")
  /\ entry' = [entry EXCEPT ![p] = ZeroWindow]
  /\ pushed' = IF run.track THEN <<>> ELSE pushed
  /\ UNCHANGED <<lock, attached, shm, run, pusher>>

(* ------------------------------ << (235-256) -------------------------- *)

\* A VALUE that RB_NUM2INT refuses to convert.
NoInt == 0 - 1

\* The VALUEs a run hands to <<.
PushArgs == run.vals \cup (IF run.errors THEN {NoInt} ELSE {})

\* The history of a recording run once reject! has changed the window: the
\* pushes no longer tell its contents.
NoHistory == <<NoInt>>

\* A push that evicts one sample too late.
PushIsFullLate(w) == w.length > w.max_size

\* if (window->length == window->max_size)
PushIsFull(w) == w.length = w.max_size

\* An eviction that forgets to advance start.
PushEvictStartStuck(w) == w.start

\* window->start = (window->start + 1) % window->max_size;
PushEvictStart(w) == CRem(w.start + 1, w.max_size)

\* window->end = (window->end + 1) % window->max_size;
PushNextEnd(w) == CRem(w.end + 1, w.max_size)

\* A push that enters its body without taking the semaphore.
PushLockNoSem(p) ==
  /\ pc[p] = "lock"
  /\ run.track => Len(pushed) < run.maxpush
  /\ window.length <= SLIDING_WINDOW_MAX_SIZE
  /\ \E v \in PushArgs :
       /\ Goto(p, "push_full") /\ SetLoc(p, [NoLoc EXCEPT !.value = v])
       /\ entry' = [entry EXCEPT ![p] = window]
  /\ UNCHANGED <<window, lock, inited, ret, attached, shm, Ghosts>>

\* The history of a recording run is kept finite, and so is length when
\* max_size is overwritten under a push.
PushLock(p) ==
  /\ run.track => Len(pushed) < run.maxpush
  /\ window.length <= SLIDING_WINDOW_MAX_SIZE
  /\ \E v \in PushArgs :
       Acquire(p, "push_full", [NoLoc EXCEPT !.value = v])
  /\ UNCHANGED Ghosts

PushFull(p) ==
  /\ Step(p, "push_full",
          IF PushIsFull(window) THEN "push_dec_length" ELSE "push_index",
          window, loc[p])
  /\ UNCHANGED Ghosts

\* window->length--;
PushDecLength(p) ==
  /\ Step(p, "push_dec_length", "push_set_start",
          [window EXCEPT !.length = @ - 1], loc[p])
  /\ UNCHANGED Ghosts

PushSetStart(p) ==
  /\ Step(p, "push_set_start", "push_index",
          [window EXCEPT !.start = PushEvictStart(window)], loc[p])
  /\ UNCHANGED Ghosts

\* const int index = window->end;
PushIndex(p) ==
  /\ Step(p, "push_index", "push_inc_length", window,
          [loc[p] EXCEPT !.index = window.end])
  /\ UNCHANGED Ghosts

\* window->length++;
PushIncLength(p) ==
  /\ Step(p, "push_inc_length", "push_store",
          [window EXCEPT !.length = @ + 1], loc[p])
  /\ UNCHANGED Ghosts

\* A push that converts the value and stores it nowhere.
PushStoreDropped(p) ==
  /\ pc[p] = "push_store"
  /\ IF loc[p].value = NoInt
       THEN /\ Goto(p, "idle") /\ SetLoc(p, NoLoc) /\ SetRet(p, "convert_error")
            /\ entry' = [entry EXCEPT ![p] = ZeroWindow]
       ELSE /\ Goto(p, "push_set_end")
            /\ UNCHANGED <<loc, ret, entry>>
  /\ UNCHANGED <<window, lock, inited, attached, shm, Ghosts>>

\* window->data[index] = RB_NUM2INT(value); the conversion may raise.
PushStore(p) ==
  /\ pc[p] = "push_store"
  /\ IF loc[p].value = NoInt
       THEN /\ Goto(p, "idle") /\ SetLoc(p, NoLoc) /\ SetRet(p, "convert_error")
            /\ entry' = [entry EXCEPT ![p] = ZeroWindow]
            /\ UNCHANGED window
       ELSE /\ window' = [window EXCEPT !.data[loc[p].index] = loc[p].value]
            /\ Goto(p, "push_set_end")
            /\ UNCHANGED <<loc, ret, entry>>
  /\ UNCHANGED <<lock, inited, attached, shm, Ghosts>>

PushSetEnd(p) ==
  /\ Step(p, "push_set_end", "push_unlock",
          [window EXCEPT !.end = PushNextEnd(window)], loc[p])
  /\ UNCHANGED Ghosts

PushUnlock(p) ==
  /\ Release(p, "push_unlock", "ok")
  /\ pushed' = IF run.track /\ pushed # NoHistory
                 THEN Append(pushed, loc[p].value) ELSE pushed
  /\ pusher' = IF run.track THEN p ELSE pusher
  /\ UNCHANGED run

Push(p) ==
  \/ PushLock(p) \/ PushFull(p) \/ PushDecLength(p)
  \/ PushSetStart(p) \/ PushIndex(p) \/ PushIncLength(p) \/ PushStore(p)
  \/ PushSetEnd(p) \/ PushUnlock(p)

Initialize(p) ==
  \/ InitCall(p) \/ InitMaxSize(p) \/ InitLength(p) \/ InitStart(p) \/ InitEnd(p)

(* ---------------------- size, max_size (106-138) --------------------- *)

SizeLock(p) == Acquire(p, "size_read", NoLoc) /\ UNCHANGED Ghosts

\* retval = RB_INT2NUM(window->length);
SizeRead(p) ==
  /\ Step(p, "size_read", "size_unlock", window,
          [loc[p] EXCEPT !.retval = <<window.length>>])
  /\ UNCHANGED Ghosts

SizeUnlock(p) == Release(p, "size_unlock", "ok") /\ UNCHANGED Ghosts

MaxSizeLock(p) ==
  Acquire(p, "max_size_read", NoLoc) /\ UNCHANGED Ghosts

\* retval = RB_INT2NUM(window->max_size);
MaxSizeRead(p) ==
  /\ Step(p, "max_size_read", "max_size_unlock", window,
          [loc[p] EXCEPT !.retval = <<window.max_size>>])
  /\ UNCHANGED Ghosts

MaxSizeUnlock(p) == Release(p, "max_size_unlock", "ok") /\ UNCHANGED Ghosts

(* ---------------------------- values (140-161) ------------------------ *)

\* int index = (window->start + i) % window->max_size;
ValuesIndex(w, i) == CRem(w.start + i, w.max_size)

ValuesLock(p) ==
  Acquire(p, "values_loop", NoLoc) /\ UNCHANGED Ghosts

\* One test of i < window->length and, when it holds, one turn of the loop.
ValuesLoop(p) ==
  /\ pc[p] = "values_loop"
  /\ IF loc[p].i < window.length
       THEN \E v \in ReadData(window, ValuesIndex(window, loc[p].i)) :
              /\ SetLoc(p, [loc[p] EXCEPT !.retval = Append(@, v), !.i = @ + 1])
              /\ UNCHANGED pc
       ELSE Goto(p, "values_unlock") /\ UNCHANGED loc
  /\ UNCHANGED <<window, lock, inited, ret, entry, attached, shm, Ghosts>>

ValuesUnlock(p) == Release(p, "values_unlock", "ok") /\ UNCHANGED Ghosts

(* ----------------------------- last (163-179) ------------------------- *)

\* A last that reads the cell after the newest sample.
LastIndexPastEnd(w) == CRem(w.start + w.length, w.max_size)

\* int index = (window->start + window->length - 1) % window->max_size;
LastIndexOf(w) == CRem(w.start + w.length - 1, w.max_size)

LastLock(p) == Acquire(p, "last_index", NoLoc) /\ UNCHANGED Ghosts

LastIndex(p) ==
  /\ Step(p, "last_index", "last_read", window,
          [loc[p] EXCEPT !.index = LastIndexOf(window)])
  /\ UNCHANGED Ghosts

\* retval = RB_INT2NUM(window->data[index]);
LastRead(p) ==
  /\ \E v \in ReadData(window, loc[p].index) :
       Step(p, "last_read", "last_unlock", window, [loc[p] EXCEPT !.retval = <<v>>])
  /\ UNCHANGED Ghosts

LastUnlock(p) == Release(p, "last_unlock", "ok") /\ UNCHANGED Ghosts

(* --------------------------- destroy (181-197) ------------------------ *)

ClearLock(p) ==
  Acquire(p, "clear_length", NoLoc) /\ UNCHANGED Ghosts

\* window->length = 0;
ClearLength(p) ==
  /\ Step(p, "clear_length", "clear_start", [window EXCEPT !.length = 0], loc[p])
  /\ UNCHANGED Ghosts

\* A destroy that leaves start where it was.
ClearStartKept(p) ==
  /\ Step(p, "clear_start", "clear_end", window, loc[p])
  /\ UNCHANGED Ghosts

\* window->start = 0;
ClearStart(p) ==
  /\ Step(p, "clear_start", "clear_end", [window EXCEPT !.start = 0], loc[p])
  /\ UNCHANGED Ghosts

\* window->end = 0;
ClearEnd(p) ==
  /\ Step(p, "clear_end", "clear_unlock", [window EXCEPT !.end = 0], loc[p])
  /\ UNCHANGED Ghosts

\* A recording run starts its history again.
ClearUnlock(p) ==
  /\ Release(p, "clear_unlock", "ok")
  /\ pushed' = IF run.track THEN <<>> ELSE pushed
  /\ UNCHANGED <<run, pusher>>

(* --------------------------- reject! (199-233) ------------------------ *)

\* int index = (start + i) % length;  with the start and length saved at entry
RejectIndex(start, length, i) == CRem(start + i, length)

\* window->start = (window->start + 1) % window->length;
RejectNextStart(w) == CRem(w.start + 1, w.length)

\* if (cleared++ != i)
RejectNotMonotonic(cleared, i) == cleared # i

\* The block answers true exactly for the values in pred.
RejectLock(p) ==
  /\ \E P \in SUBSET ({0} \cup run.vals) :
       Acquire(p, "reject_start", [NoLoc EXCEPT !.pred = P])
  /\ UNCHANGED Ghosts

\* int start = window->start;
RejectStart(p) ==
  /\ Step(p, "reject_start", "reject_length", window,
          [loc[p] EXCEPT !.start = window.start])
  /\ UNCHANGED Ghosts

\* int length = window->length;
RejectLength(p) ==
  /\ Step(p, "reject_length", "reject_loop", window,
          [loc[p] EXCEPT !.length = window.length])
  /\ UNCHANGED Ghosts

\* One test of i < length and, when it holds, the read of the sample and the
\* call of the block, which answers or raises.
RejectLoop(p) ==
  /\ pc[p] = "reject_loop"
  /\ IF loc[p].i < loc[p].length
       THEN \E v \in ReadData(window,
                              RejectIndex(loc[p].start, loc[p].length, loc[p].i)) :
              \/ /\ v \in loc[p].pred
                 /\ RejectNotMonotonic(loc[p].cleared, loc[p].i)
                 /\ Goto(p, "reject_raise")
                 /\ SetLoc(p, [loc[p] EXCEPT !.seen = Append(@, v),
                                             !.cleared = @ + 1])
                 /\ UNCHANGED <<ret, entry>>
              \/ /\ v \in loc[p].pred
                 /\ ~RejectNotMonotonic(loc[p].cleared, loc[p].i)
                 /\ Goto(p, "reject_set_start")
                 /\ SetLoc(p, [loc[p] EXCEPT !.seen = Append(@, v),
                                             !.cleared = @ + 1])
                 /\ UNCHANGED <<ret, entry>>
              \/ /\ v \notin loc[p].pred
                 /\ SetLoc(p, [loc[p] EXCEPT !.seen = Append(@, v), !.i = @ + 1])
                 /\ UNCHANGED <<pc, ret, entry>>
              \/ /\ run.errors
                 /\ Goto(p, "idle") /\ SetLoc(p, NoLoc) /\ SetRet(p, "yield_error")
                 /\ entry' = [entry EXCEPT ![p] = ZeroWindow]
       ELSE Goto(p, "reject_unlock") /\ UNCHANGED <<loc, ret, entry>>
  /\ UNCHANGED <<window, lock, inited, attached, shm, Ghosts>>

\* window->start = (window->start + 1) % window->length; a zero divisor
\* kills the process.
RejectSetStart(p) ==
  /\ pc[p] = "reject_set_start"
  /\ IF window.length = 0
       THEN Goto(p, "crashed") /\ UNCHANGED window
       ELSE /\ window' = [window EXCEPT !.start = RejectNextStart(window)]
            /\ Goto(p, "reject_dec_length")
  /\ UNCHANGED <<lock, inited, loc, ret, entry, attached, shm, Ghosts>>

\* window->length--; and the ++i of the loop
RejectDecLength(p) ==
  /\ Step(p, "reject_dec_length", "reject_loop",
          [window EXCEPT !.length = @ - 1], [loc[p] EXCEPT !.i = @ + 1])
  /\ UNCHANGED Ghosts

\* A reject! that raises without giving the semaphore back.
RejectRaiseLocked(p) ==
  /\ pc[p] = "reject_raise"
  /\ Goto(p, "idle") /\ SetLoc(p, NoLoc) /\ SetRet(p, "monotonic_error")
  /\ entry' = [entry EXCEPT ![p] = ZeroWindow]
  /\ pushed' = IF run.track THEN NoHistory ELSE pushed
  /\ UNCHANGED <<window, lock, inited, attached, shm, run, pusher>>

\* sem_meta_unlock(res->sem_id); rb_raise(rb_eArgError, "reject! must ...");
RejectRaise(p) ==
  /\ Release(p, "reject_raise", "monotonic_error")
  /\ pushed' = IF run.track THEN NoHistory ELSE pushed
  /\ UNCHANGED <<run, pusher>>

RejectUnlock(p) ==
  /\ Release(p, "reject_unlock", "ok")
  /\ pushed' = IF run.track THEN NoHistory ELSE pushed
  /\ UNCHANGED <<run, pusher>>

(* --------------------------- specifications --------------------------- *)

Size(p) == SizeLock(p) \/ SizeRead(p) \/ SizeUnlock(p)

MaxSize(p) ==
  MaxSizeLock(p) \/ MaxSizeRead(p) \/ MaxSizeUnlock(p)

ValuesOp(p) == ValuesLock(p) \/ ValuesLoop(p) \/ ValuesUnlock(p)

Last(p) ==
  LastLock(p) \/ LastIndex(p) \/ LastRead(p) \/ LastUnlock(p)

Clear(p) ==
  \/ ClearLock(p) \/ ClearLength(p) \/ ClearStart(p)
  \/ ClearEnd(p) \/ ClearUnlock(p)

Reject(p) ==
  \/ RejectLock(p) \/ RejectStart(p) \/ RejectLength(p)
  \/ RejectLoop(p) \/ RejectSetStart(p) \/ RejectDecLength(p)
  \/ RejectRaise(p) \/ RejectUnlock(p)

\* The methods that take the semaphore.
Locked(p) ==
  \/ Size(p) \/ MaxSize(p) \/ ValuesOp(p) \/ Last(p)
  \/ Clear(p) \/ Reject(p) \/ Push(p)

\* The state after semian_simple_sliding_window_alloc in every process of the
\* run r: no segment yet (it will be created zero filled), the semaphore free.
InitAlloc(r) ==
  /\ window = ZeroWindow
  /\ shm = 0
  /\ lock = NoProc
  /\ inited = [p \in Procs |-> FALSE]
  /\ pc = [p \in Procs |-> "idle"]
  /\ loc = [p \in Procs |-> NoLoc]
  /\ ret = [p \in Procs |-> "none"]
  /\ entry = [p \in Procs |-> ZeroWindow]
  /\ attached = [p \in Procs |-> 0]
  /\ run = r
  /\ pushed = <<>>
  /\ pusher = NoProc

\* The state after initialize_sliding_window(name, c) has returned in every
\* process of the run r, one call after the other, for some c of r.
InitOpened(r) ==
  /\ \E c \in r.sizes : window = [ZeroWindow EXCEPT !.max_size = c]
  /\ shm = ShmgetSize
  /\ lock = NoProc
  /\ inited = [p \in Procs |-> p \in r.procs]
  /\ pc = [p \in Procs |-> "idle"]
  /\ loc = [p \in Procs |-> NoLoc]
  /\ ret = [p \in Procs |-> IF p \in r.procs THEN "ok" ELSE "none"]
  /\ entry = [p \in Procs |-> ZeroWindow]
  /\ attached = [p \in Procs |-> 0]
  /\ run = r
  /\ pushed = <<>>
  /\ pusher = NoProc

\* A run of the processes procs that draws the max_size arguments from sizes
\* and the samples from vals: calls can fail, they overlap, and neither the
\* pushes nor the attachments are recorded.
Run(procs, sizes, vals) ==
  [procs |-> procs, sizes |-> sizes, vals |-> vals,
   track |-> FALSE, maxpush |-> MaxPush, errors |-> TRUE, serial |-> FALSE,
   attach |-> FALSE]

Init == InitAlloc(Run({1}, 0..(SLIDING_WINDOW_MAX_SIZE + 1), Vals))

InitPush ==
  InitOpened([Run({1}, 1..SLIDING_WINDOW_MAX_SIZE, Vals) EXCEPT !.track = TRUE])

InitLocked == InitOpened(Run(Procs, 1..ConcMaxSize, ConcVals))

InitConc == InitAlloc(Run(Procs, 0..ConcMaxSize, ConcVals))

\* The max_size arguments of the runs of several handles: the valid ones up
\* to ConcMaxSize, and 0 and SLIDING_WINDOW_MAX_SIZE + 1.
HandleSizes == (0..ConcMaxSize) \cup {SLIDING_WINDOW_MAX_SIZE + 1}

InitClear ==
  InitOpened([Run({1}, 1..SLIDING_WINDOW_MAX_SIZE, ConcVals) EXCEPT
                !.track = TRUE])

InitShare ==
  InitOpened([Run(Procs, 1..ConcMaxSize, ConcVals) EXCEPT
                !.track = TRUE, !.maxpush = ConcMaxPush])

InitLive ==
  InitOpened([Run(Procs, 1..ConcMaxSize, ConcVals) EXCEPT !.errors = FALSE])

\* One sample value is enough for a block to tell a written cell from a cell
\* never written.
InitRace ==
  InitAlloc([Run(Procs, 1..ConcMaxSize, {1}) EXCEPT !.errors = FALSE])

InitAttach ==
  InitAlloc([Run({1}, 1..ConcMaxSize, ConcVals) EXCEPT !.attach = TRUE])

InitHandles ==
  InitAlloc([Run(Procs, HandleSizes, ConcVals) EXCEPT
               !.track = TRUE, !.maxpush = ConcMaxPush, !.errors = FALSE,
               !.serial = TRUE])

Next == \E p \in Procs : Initialize(p) \/ Call(p) \/ Locked(p)

NextPush == \E p \in Procs : Call(p) \/ Push(p) \/ Size(p) \/ ValuesOp(p) \/ Last(p)

NextLocked == \E p \in Procs : Call(p) \/ Locked(p)

NextConc == \E p \in Procs : Initialize(p) \/ Call(p) \/ Push(p) \/ Clear(p)

NextClear ==
  \E p \in Procs :
    Call(p) \/ Push(p) \/ Clear(p) \/ Reject(p) \/ Size(p) \/ ValuesOp(p)

NextRace == \E p \in Procs : Initialize(p) \/ Call(p) \/ Push(p) \/ Reject(p)

NextAttach == \E p \in Procs : Initialize(p) \/ Call(p) \/ Size(p) \/ Push(p)

NextHandles ==
  \E p \in Procs :
    Initialize(p) \/ Call(p) \/ Push(p) \/ Size(p) \/ ValuesOp(p)

\* Calls of every method, issued one at a time by a single process.
Spec == Init /\ [][Next]_vars

\* A single process pushes to, and queries, a freshly initialized window.
SpecPush == InitPush /\ [][NextPush]_vars

\* Several processes call the methods that take the semaphore; no handle is
\* initialized again.
SpecLocked == InitLocked /\ [][NextLocked]_vars

\* Several processes initialize, push and clear on the same key.
SpecConc == InitConc /\ [][NextConc]_vars

\* A single process pushes, rejects, clears and queries.
SpecClear == InitClear /\ [][NextClear]_vars

\* Several processes push to, and query, a window they have all opened.
SpecShare == InitShare /\ [][NextPush]_vars

\* Several processes call the methods that take the semaphore; shmget, shmat,
\* the block and the conversions do not fail, and a process that is inside a
\* method, or can take the semaphore, is not stopped for ever.
SpecLive ==
  /\ InitLive /\ [][NextLocked]_vars
  /\ \A p \in Procs : WF_vars(Locked(p))

\* Several processes initialize, push and reject on the same key.
SpecRace == InitRace /\ [][NextRace]_vars

\* A single process initializes, pushes and asks the size; its attachments
\* are counted.
SpecAttach == InitAttach /\ [][NextAttach]_vars

\* Several handles on one key initialize, push and query, one call at a time.
SpecHandles == InitHandles /\ [][NextHandles]_vars

(* ------------- the methods as single steps (same code) ---------------- *)

\* << run from start to end on the record w (lines 243-251).
SerialPush(w, v) ==
  LET w1 == IF PushIsFull(w)
              THEN [w EXCEPT !.length = @ - 1, !.start = PushEvictStart(w)]
              ELSE w
  IN  [w1 EXCEPT !.length = @ + 1, !.data[w1.end] = v, !.end = PushNextEnd(w1)]

\* destroy run from start to end on the record w (lines 190-192).
SerialClear(w) == [w EXCEPT !.length = 0, !.start = 0, !.end = 0]

\* The loop of reject! from turn i on (lines 215-228): the record it leaves
\* and whether it raised.
RECURSIVE RejectFrom(_, _, _, _, _, _)
RejectFrom(w, start, length, i, cleared, P) ==
  IF i >= length
    THEN [w |-> w, raised |-> FALSE]
    ELSE IF w.data[RejectIndex(start, length, i)] \in P
           THEN IF RejectNotMonotonic(cleared, i)
                  THEN [w |-> w, raised |-> TRUE]
                  ELSE RejectFrom([w EXCEPT !.start = RejectNextStart(w),
                                            !.length = @ - 1],
                                  start, length, i + 1, cleared + 1, P)
           ELSE RejectFrom(w, start, length, i + 1, cleared, P)

\* reject! run from start to end on the record w with the block P.
SerialReject(w, P) == RejectFrom(w, w.start, w.length, 0, 0, P)

(* ------------------------------ claims -------------------------------- *)

Returned(p) == pc[p] = "idle" /\ inited[p]

\* The number of leading elements of s that lie in P.
RECURSIVE PrefixLen(_, _)
PrefixLen(P, s) ==
  IF s # <<>> /\ Head(s) \in P THEN 1 + PrefixLen(P, Tail(s)) ELSE 0

\* P holds exactly on a prefix of s.
IsPrefixPred(P, s) == \A k \in 1..Len(s) : s[k] \in P <=> k <= PrefixLen(P, s)

\* P holds on some element of s after an element on which it does not.
NonMonotonic(P, s) ==
  \E j \in 1..Len(s) : \E k \in (j + 1)..Len(s) : s[j] \notin P /\ s[k] \in P

\* The position of the first element of s in P that follows one not in P.
FirstGap(P, s) ==
  CHOOSE k \in 1..Len(s) :
    /\ s[k] \in P /\ k > PrefixLen(P, s) + 1
    /\ \A j \in (PrefixLen(P, s) + 2)..(k - 1) : s[j] \notin P

EndInvariant(w) ==
  /\ w.start \in 0..(w.max_size - 1)
  /\ w.end \in 0..(w.max_size - 1)
  /\ w.end = (w.start + w.length) % w.max_size

\* C1: on a freshly initialized window of any capacity, after each push
\* 0 <= length <= capacity; a push on a full window leaves it full and
\* removes exactly the oldest sample (the former values()[0]).
C1_CapacityBound ==
  \A p \in Procs :
    /\ (Returned(p) /\ ret[p] = "ok") =>
         (0 <= window.length /\ window.length <= window.max_size)
    /\ pc[p] = "push_unlock" =>
         /\ 0 <= window.length /\ window.length <= window.max_size
         /\ entry[p].length = entry[p].max_size =>
              /\ window.length = window.max_size
              /\ Values(window) = Append(Tail(Values(entry[p])), loc[p].value)

\* A push on a full window of capacity 3 holding different samples is about
\* to return, after the window has wrapped around.
C1_Witness ==
  \E p \in Procs :
    /\ pc[p] = "push_unlock"
    /\ entry[p].max_size = 3 /\ entry[p].length = 3
    /\ entry[p].start = 2
    /\ Values(entry[p])[1] # Values(entry[p])[2]

\* C2: after initialize(name, c) and n pushes, values() returns exactly the
\* last min(n, c) pushed values, oldest first.
C2_FifoOverwrite ==
  \A p \in Procs :
    /\ (Returned(p) /\ ret[p] = "ok") =>
         Values(window) = LastN(pushed, Min(Len(pushed), window.max_size))
    /\ pc[p] = "values_unlock" =>
         loc[p].retval = LastN(pushed, Min(Len(pushed), window.max_size))

\* values() is about to return after more than 2c pushes of different values
\* on a window of capacity c >= 2.
C2_Witness ==
  \E p \in Procs :
    /\ pc[p] = "values_unlock"
    /\ window.max_size >= 2
    /\ Len(pushed) > 2 * window.max_size
    /\ loc[p].retval[1] # loc[p].retval[2]

\* C3: after any completed operation of a sequence of initialize, push,
\* clear and reject! calls issued one at a time, end == (start + length) mod
\* capacity, 0 <= start < capacity and 0 <= end < capacity.
C3_EndInvariant ==
  \A p \in run.procs :
    (Returned(p) /\ ret[p] \in {"ok", "monotonic_error"}) => EndInvariant(window)

\* C4: when the block holds exactly on the first k of the L samples,
\* reject! returns without error and leaves the last L - k samples.
C4_PrefixReject ==
  \A p \in Procs :
    pc[p] \in {"reject_unlock", "reject_raise"} =>
      LET s == Values(entry[p])
          k == PrefixLen(loc[p].pred, s)
      IN  IsPrefixPred(loc[p].pred, s) =>
            /\ pc[p] = "reject_unlock"
            /\ window.length = Len(s) - k
            /\ Values(window) = SubSeq(s, k + 1, Len(s))

\* C5: reject! raises exactly when the block holds on a sample that follows
\* one on which it does not; it then leaves the samples after the removed
\* prefix, the offending one included, and has called the block on no sample
\* after the offending one.
C5_NonMonotonicReject ==
  \A p \in Procs :
    pc[p] \in {"reject_unlock", "reject_raise"} =>
      LET s == Values(entry[p])
          P == loc[p].pred
          k == PrefixLen(P, s)
      IN  /\ pc[p] = "reject_raise" <=> NonMonotonic(P, s)
          /\ pc[p] = "reject_raise" =>
               /\ window.length = Len(s) - k
               /\ Values(window) = SubSeq(s, k + 1, Len(s))
               /\ NonMonotonic(P, s) => Len(loc[p].seen) = FirstGap(P, s)

\* C6: no operation that has ended, normally or with an error, has left the
\* semaphore taken.
C6_LockReleased == \A p \in Procs : pc[p] = "idle" => lock # p

\* The statements that read or write a field of the shared record.
AccessPcs ==
  {"init_length", "init_start", "init_end",
   "size_read", "max_size_read", "values_loop", "last_index", "last_read",
   "clear_length", "clear_start", "clear_end",
   "reject_start", "reject_length", "reject_loop", "reject_set_start",
   "reject_dec_length",
   "push_full", "push_dec_length", "push_set_start", "push_index",
   "push_inc_length", "push_store", "push_set_end"}

\* C7: a process that is about to read or write a field of the shared record
\* holds the semaphore, in initialize as in the other methods.
C7_AccessUnderLock == \A p \in Procs : pc[p] \in AccessPcs => lock = p

\* C8: whenever no operation of the processes that initialize, push and clear
\* on one key is in progress, 0 <= length <= capacity and
\* end == (start + length) mod capacity.
C8_QuiescentInvariant ==
  (\A p \in run.procs : Returned(p) /\ ret[p] = "ok") =>
    /\ 0 <= window.length /\ window.length <= window.max_size
    /\ window.end = (window.start + window.length) % window.max_size

\* The statements between sem_meta_lock and sem_meta_unlock.
Critical(p) == pc[p] \in AccessPcs \cup
  {"size_unlock", "max_size_unlock", "values_unlock", "last_unlock",
   "clear_unlock", "reject_unlock", "reject_raise", "push_unlock"}

\* C9: with no initialize after the handles exist, at most one process is
\* between sem_meta_lock and sem_meta_unlock, and when a method is about to
\* release the semaphore the record and the result are those of running the
\* method in one step on the record found when the semaphore was taken.
C9_Serialized ==
  /\ \A p, q \in Procs : (Critical(p) /\ Critical(q)) => p = q
  /\ \A p \in Procs :
       /\ Critical(p) => lock = p
       /\ pc[p] = "push_unlock" => window = SerialPush(entry[p], loc[p].value)
       /\ pc[p] = "clear_unlock" => window = SerialClear(entry[p])
       /\ pc[p] \in {"reject_unlock", "reject_raise"} =>
            LET r == SerialReject(entry[p], loc[p].pred)
            IN  window = r.w /\ (r.raised <=> pc[p] = "reject_raise")
       /\ pc[p] = "size_unlock" =>
            window = entry[p] /\ loc[p].retval = <<entry[p].length>>
       /\ pc[p] = "max_size_unlock" =>
            window = entry[p] /\ loc[p].retval = <<entry[p].max_size>>
       /\ pc[p] = "values_unlock" =>
            window = entry[p] /\ loc[p].retval = Values(entry[p])
       /\ pc[p] = "last_unlock" =>
            /\ window = entry[p]
            /\ entry[p].length > 0 =>
                 loc[p].retval = <<Values(entry[p])[entry[p].length]>>

\* A reject! that removed one of the two samples of a wrapped window is about
\* to release the semaphore while another process waits for it.
C9_Witness ==
  \E p, q \in Procs :
    /\ p # q
    /\ pc[p] = "reject_unlock" /\ pc[q] = "lock"
    /\ entry[p].length = 2 /\ window.length = 1
    /\ entry[p].start = 1

\* C10: last() on an empty window reads data at an index in [0, capacity).
C10_LastInBounds ==
  \A p \in Procs :
    (pc[p] = "last_read" /\ window.length = 0) =>
      (0 <= loc[p].index /\ loc[p].index < window.max_size)

\* C11: after any non-empty sequence of pushes on an initialized window, also
\* one longer than the capacity, last() returns values()[length - 1], which is
\* the value of the most recent push.
C11_LastIsNewest ==
  \A p \in Procs :
    (pc[p] = "last_unlock" /\ Len(pushed) > 0) =>
      /\ window.length > 0
      /\ loc[p].retval = <<Values(window)[window.length]>>
      /\ loc[p].retval = <<pushed[Len(pushed)]>>

\* last() is about to return on a window of capacity c >= 2 that has taken
\* more than c pushes, the last two of different values, and has wrapped.
C11_Witness ==
  \E p \in Procs :
    /\ pc[p] = "last_unlock"
    /\ window.max_size >= 2
    /\ Len(pushed) > window.max_size
    /\ window.start # 0
    /\ pushed[Len(pushed)] # pushed[Len(pushed) - 1]

\* C12: initialize with a max_size that is <= 0 or > SLIDING_WINDOW_MAX_SIZE
\* raises the ArgumentError of check_max_size_arg and leaves the record of the
\* key as the call found it: max_size, length, start, end and data unchanged.
C12_InvalidMaxSize ==
  [][\A p \in Procs :
       (pc[p] = "init_max_size" /\ ~check_max_size_arg(loc[p].value)) =>
         /\ pc'[p] = "idle" /\ ret'[p] = "max_size_error"
         /\ window' = entry[p]]_vars

\* An initialize with an invalid max_size has returned its error on a record
\* that another handle had filled.
C12_Witness ==
  \E p, q \in Procs :
    /\ p # q
    /\ pc[p] = "idle" /\ ret[p] = "max_size_error"
    /\ pusher = q /\ Len(pushed) >= 2
    /\ window.length >= 2

\* The record of a freshly initialized window of capacity c after the pushes
\* of h, but for the cells of data no push of h has written.
FreshAfter(c, h, w) ==
  /\ w.max_size = c
  /\ w.length = Min(Len(h), c)
  /\ w.end = Len(h) % c
  /\ w.start = (Len(h) - Min(Len(h), c)) % c
  /\ Values(w) = LastN(h, Min(Len(h), c))

\* C13: from any reachable state, destroy sets length = start = end = 0 and
\* leaves max_size and every cell of data unchanged, so that size returns 0
\* and values returns []; the pushes that follow behave as on a freshly
\* initialized window of the same capacity.
C13_ClearRoundTrip ==
  \A p \in Procs :
    /\ pc[p] = "clear_unlock" =>
         /\ window = [entry[p] EXCEPT !.length = 0, !.start = 0, !.end = 0]
         /\ Values(window) = <<>>
    /\ pushed # NoHistory =>
         /\ (Returned(p) /\ ret[p] = "ok") =>
              FreshAfter(window.max_size, pushed, window)
         /\ pc[p] = "size_unlock" =>
              loc[p].retval = <<Min(Len(pushed), window.max_size)>>
         /\ pc[p] = "values_unlock" =>
              loc[p].retval = LastN(pushed, Min(Len(pushed), window.max_size))

\* values is about to return on a window of capacity 3 that took two pushes
\* since it was cleared, and whose third cell still holds a sample of before.
C13_Witness ==
  \E p \in Procs :
    /\ pc[p] = "values_unlock"
    /\ pushed # NoHistory /\ Len(pushed) = 2
    /\ window.max_size = 3 /\ window.data[2] # 0

\* No call is in progress, and none has ended inside its critical section.
Quiet ==
  \A p \in Procs : pc[p] = "idle" /\ ret[p] \in {"none", "ok", "max_size_error"}

\* C14: every initialize that succeeds sets max_size to its argument and
\* length = start = end = 0 whatever the record held, so that values, called
\* through any handle, no longer returns the samples pushed before, through
\* whichever handle: it returns the pushes made since, and so does size.
C14_InitResets ==
  /\ \A p \in Procs :
       /\ pc[p] \in {"init_length", "init_start", "init_end"} =>
            /\ check_max_size_arg(loc[p].value)
            /\ window.max_size = loc[p].value
       /\ pc[p] = "values_unlock" =>
            loc[p].retval = LastN(pushed, Min(Len(pushed), window.max_size))
       /\ pc[p] = "size_unlock" =>
            loc[p].retval = <<Min(Len(pushed), window.max_size)>>
  /\ (Quiet /\ \E p \in Procs : inited[p]) =>
       FreshAfter(window.max_size, pushed, window)

\* values, called through a handle, is about to return [] although the last
\* push, made through another handle, is still in data[0]: an initialize has
\* run since.
C14_Witness ==
  \E p, q \in Procs :
    /\ p # q
    /\ pc[q] = "values_unlock" /\ loc[q].retval = <<>>
    /\ pusher = p /\ pushed = <<>>
    /\ window.data[0] # 0

\* C15: once the handles exist and no initialize runs, size, last and values
\* called through any handle return what the pushes made so far through all
\* the handles determine, so a push through one handle shows in the queries
\* through the other and the same query gives the same result through both.
C15_CrossHandle ==
  \A q \in Procs :
    /\ pc[q] = "size_unlock" =>
         loc[q].retval = <<Min(Len(pushed), window.max_size)>>
    /\ pc[q] = "values_unlock" =>
         loc[q].retval = LastN(pushed, Min(Len(pushed), window.max_size))
    /\ (pc[q] = "last_unlock" /\ Len(pushed) > 0) =>
         loc[q].retval = <<pushed[Len(pushed)]>>

\* values, called through one handle, is about to return a window that has
\* wrapped and whose newest sample was pushed through the other handle.
C15_Witness ==
  \E p, q \in Procs :
    /\ p # q
    /\ pc[q] = "values_unlock" /\ pusher = p
    /\ Len(pushed) > window.max_size /\ window.max_size >= 2
    /\ loc[q].retval[1] # loc[q].retval[2]

\* Some process is blocked in sem_meta_lock.
Waiting == \E p \in Procs : pc[p] = "lock"

\* C16: when no call fails in shmget, shmat, the block or a conversion, the
\* process that has the semaphore is inside its critical section, every
\* sem_meta_lock that returned is followed by the sem_meta_unlock of the same
\* process, and when a process waits the semaphore becomes free and is then
\* taken by some process.
C16_NoDeadlock ==
  /\ [](\A p \in Procs : lock = p => Critical(p))
  /\ (lock # NoProc) ~> (lock = NoProc)
  /\ Waiting ~> (Waiting /\ lock = NoProc)
  /\ (Waiting /\ lock = NoProc) ~> (lock # NoProc)

\* A reject! is in its loop, about to remove a sample, while every other
\* process waits for the semaphore.
C16_Witness ==
  \E p \in Procs :
    /\ lock = p /\ pc[p] = "reject_set_start"
    /\ \A q \in Procs \ {p} : pc[q] = "lock"

\* The statements of reject! after the first call of the block.
RejectPcs ==
  {"reject_loop", "reject_set_start", "reject_dec_length", "reject_unlock",
   "reject_raise"}

\* C17: the values reject! hands to the block are those of values() as it was
\* when reject! started, oldest first: the i-th call gets the live sample at
\* logical position i, also when start # 0 and when length < max_size; a
\* reject! that returns has handed over all of them.
C17_BlockSeesValues ==
  \A p \in Procs :
    /\ pc[p] \in RejectPcs =>
         /\ Len(loc[p].seen) <= entry[p].length
         /\ loc[p].seen = SubSeq(Values(entry[p]), 1, Len(loc[p].seen))
    /\ pc[p] = "reject_unlock" => loc[p].seen = Values(entry[p])

\* C18: reject! never takes a modulus by zero: the saved length is >= 1 when
\* (start + i) % length is evaluated, and window->length is >= 1 when
\* (window->start + 1) % window->length is, whatever the other processes do
\* on the key meanwhile, an initialize included.
C18_NoZeroModulus ==
  \A p \in Procs :
    /\ (pc[p] = "reject_loop" /\ loc[p].i < loc[p].length) => loc[p].length >= 1
    /\ pc[p] = "reject_set_start" => window.length >= 1
    /\ pc[p] # "crashed"

(* -------- the record in the segment (sliding_window.h layout) --------- *)

\* The byte offsets of the fields of semian_simple_sliding_window_shared_t:
\* four ints, then data[SLIDING_WINDOW_MAX_SIZE].
OffsetOf(f) ==
  CASE f = "max_size" -> 0
    [] f = "length" -> SizeofInt
    [] f = "start" -> 2 * SizeofInt
    [] f = "end" -> 3 * SizeofInt

DataOffset(k) == 4 * SizeofInt + k * SizeofInt

\* sizeof(semian_simple_sliding_window_shared_t)
RecordSize == DataOffset(SLIDING_WINDOW_MAX_SIZE)

\* The offset of data[k] when k is an index of a live capacity, nothing
\* otherwise.
DataIn(w, k) == IF 0 <= k /\ k < w.max_size THEN {DataOffset(k)} ELSE {}

\* The offsets of the ints that the statement process p executes next reads
\* or writes in the segment.
Touches(p) ==
  LET F(fs) == {OffsetOf(f) : f \in fs}
      l == loc[p]
  IN  CASE pc[p] = "init_max_size" ->
             IF check_max_size_arg(l.value) THEN F({"max_size"}) ELSE {}
        [] pc[p] \in {"init_length", "size_read", "clear_length",
                      "reject_length", "reject_dec_length", "push_dec_length",
                      "push_inc_length"} -> F({"length"})
        [] pc[p] \in {"init_start", "clear_start", "reject_start"} -> F({"start"})
        [] pc[p] \in {"init_end", "clear_end", "push_index"} -> F({"end"})
        [] pc[p] = "max_size_read" -> F({"max_size"})
        [] pc[p] = "values_loop" ->
             IF l.i < window.length
               THEN F({"length", "start", "max_size"})
                      \cup DataIn(window, ValuesIndex(window, l.i))
               ELSE F({"length"})
        [] pc[p] = "last_index" -> F({"start", "length", "max_size"})
        [] pc[p] = "last_read" -> DataIn(window, l.index)
        [] pc[p] = "reject_loop" ->
             IF l.i < l.length
               THEN DataIn(window, RejectIndex(l.start, l.length, l.i))
               ELSE {}
        [] pc[p] = "reject_set_start" -> F({"start", "length"})
        [] pc[p] = "push_full" -> F({"length", "max_size"})
        [] pc[p] = "push_set_start" -> F({"start", "max_size"})
        [] pc[p] = "push_store" ->
             IF l.value = NoInt THEN {} ELSE DataIn(window, l.index)
        [] pc[p] = "push_set_end" -> F({"end", "max_size"})
        [] OTHER -> {}

\* C19: the segment get_window creates for a key is at least as large as one
\* record (the four counters and data[SLIDING_WINDOW_MAX_SIZE]), so that
\* every counter and every data[k] with 0 <= k < max_size that a statement
\* reads or writes lies inside the segment.
C19_SegmentHoldsRecord ==
  /\ shm # 0 => shm >= RecordSize
  /\ \A p \in Procs : \A o \in Touches(p) : 0 <= o /\ o + SizeofInt <= shm

\* C20: a method that attaches the segment gives the attachment up before it
\* returns: a process that is in no method holds as many attachments as
\* before its first call, none, however many calls it has made.
C20_AttachmentsReleased ==
  \A p \in Procs : pc[p] = "idle" => attached[p] = 0

==========================================================================
